---- MODULE Spec2Model ----
(***************************************************************************)
(* State-machine model of jay-macros (scripts/main.mjs): the debounced,    *)
(* promise-chained update of one hotbar page from the selected tokens.     *)
(* The host (Foundry VTT) appears only through the calls main.mjs makes:   *)
(* canvas.tokens.controlled, game.settings.get, game.user.getHotbarMacros, *)
(* game.user.hotbar, Macro.create, Macro.deleteDocuments, game.user.update *)
(* and the setTimeout/clearTimeout timers.  Every await of a host call is  *)
(* a point where the pass is suspended and other handlers may run.         *)
(***************************************************************************)
EXTENDS Integers, Sequences, FiniteSets, TLC

(***************************************************************************)
(* Bounds of the exploration.                                              *)
(***************************************************************************)
\* hotbar pages modelled (the host has 5, main.mjs:366-372)
NumPages == 2
\* slots per hotbar page modelled (the host has 10)
SlotsPerPage == 2
\* events of the environment in one behaviour: token control events, filter
\* clicks, setting changes, hotbar edits by the user
MaxEvents == 3
\* host calls that are rejected in one behaviour
MaxHostFailures == 1
\* timer handles the host can have pending at once
MaxTimers == 2
\* tokens selected at once when the aggregator is applied on its own
MaxSelected == 2

(***************************************************************************)
(* Values.                                                                 *)
(***************************************************************************)
\* no macro in a slot: `!sm.macro`, a missing key of game.user.hotbar
NoId == 0
\* updateTimeout = null
NoTimer == 0
\* currentFilter = null (the button's data-filter is 'all')
NoFilter == "all"
\* an activity whose activation.type is undefined
NoType == "absent"
\* the value Array.prototype.find returns when nothing matches
Undefined == "undefined"
\* token.actor of a token that has none
NoActor == "noactor"

Pages == 1..NumPages
Slots == 1..(NumPages * SlotsPerPage)
PageSlots(p) == ((p - 1) * SlotsPerPage + 1)..(p * SlotsPerPage)
TimerIds == 1..MaxTimers
\* the one macro of the user's own in the macro directory
UserMacroIds == 1..1
\* enough identities for every macro that can exist or be referred to at once
AutoMacroIds ==
  {id \in 1..(Cardinality(UserMacroIds) + NumPages * SlotsPerPage
               + SlotsPerPage * (MaxHostFailures + 2) + MaxEvents) :
     id \notin UserMacroIds}
MacroIds == UserMacroIds \cup AutoMacroIds

SeqToSet(s) == {s[i] : i \in 1..Len(s)}
Min(S) == CHOOSE x \in S : \A y \in S : x <= y

RECURSIVE SetToSortedSeq(_)
SetToSortedSeq(S) ==
  IF S = {} THEN <<>> ELSE <<Min(S)>> \o SetToSortedSeq(S \ {Min(S)})

(***************************************************************************)
(* The world of the host: tokens, their actors, the actors' items and      *)
(* favorites.                                                              *)
(***************************************************************************)
\* the tokens of the scene the user controls and releases
Tokens == {"t1", "t2"}

\* every token the aggregator is applied to: t5 is a second token of actor A,
\* t4 a token without an actor
AllTokens == Tokens \cup {"t3", "t4", "t5", "t6", "t7"}

TokenActor(t) ==
  CASE t = "t1" -> "A"
    [] t = "t2" -> "B"
    [] t = "t3" -> "C"
    [] t = "t5" -> "A"
    [] t = "t6" -> "D"
    [] t = "t7" -> "E"
    [] OTHER -> NoActor

ActorItems(a) ==
  CASE a = "A" -> <<"a1", "a2">>
    [] a = "B" -> <<"b1", "b2">>
    [] a = "C" -> <<"c1", "c2", "c3", "c4">>
    [] a = "D" -> <<"d1", "d2", "d3">>
    [] a = "E" -> <<"e1">>
    [] OTHER -> <<>>

\* actor.system.favorites: B has a favorite whose item is gone, D lists its
\* favorites in another order than its items, E has none of type 'item'
ActorFavorites(a) ==
  CASE a = "B" -> << [type |-> "item", id |-> <<"Item", "b1">>],
                     [type |-> "effect", id |-> <<"Item", "b2">>],
                     [type |-> "item", id |-> <<"Item", "gone">>] >>
    [] a = "D" -> << [type |-> "item", id |-> <<"Item", "d2">>],
                     [type |-> "effect", id |-> <<"Item", "d3">>],
                     [type |-> "item", id |-> <<"Item", "d1">>] >>
    [] a = "E" -> << [type |-> "effect", id |-> <<"Item", "e1">>] >>
    [] OTHER -> <<>>

ItemType(i) ==
  CASE i = "a1" -> "weapon"
    [] i = "a2" -> "spell"
    [] i = "b1" -> "feat"
    [] i = "d2" -> "spell"
    [] OTHER -> "loot"

\* item.system.activities, each activity by its activation.type (NoType: the
\* activity declares none)
ItemActivities(i) ==
  CASE i = "a1" -> <<"action">>
    [] i = "a2" -> <<"bonus">>
    [] i = "b1" -> <<"reaction">>
    [] i = "c1" -> <<NoType>>
    [] i = "c2" -> <<"special", "action">>
    [] i = "c3" -> <<"none">>
    [] i = "c4" -> <<NoType, "bonus">>
    [] i = "d1" -> <<"action">>
    [] i = "d2" -> <<"bonus">>
    [] i = "d3" -> <<"action">>
    [] i = "e1" -> <<"action">>
    [] OTHER -> <<>>

\* every item of every actor, and the absent item
Entities ==
  UNION {SeqToSet(ActorItems(TokenActor(t))) : t \in AllTokens} \cup {Undefined}

getRelativeUUID(i) == <<"Item", i>>

(***************************************************************************)
(* Settings (initHook) and the eligibility filter.                         *)
(***************************************************************************)
ActivationKeys == {"action", "bonus", "reaction", "special", "none"}

ACTION_LOOKUP(k) == k

\* the defaults initHook registers; the default page is the last one
DefaultSettings ==
  [ hotbarPage |-> NumPages, onlyGMs |-> FALSE,
    action |-> TRUE, bonus |-> TRUE, reaction |-> TRUE, special |-> TRUE,
    none |-> FALSE, empty |-> FALSE, experimentalFilters |-> FALSE ]

\* `!item?.system?.activities?.size` is false
HasActivities(item) == item # Undefined /\ Len(ItemActivities(item)) > 0

isItemAction(item, st) ==
  IF ~HasActivities(item)
  THEN st.empty
  ELSE LET actionTypes == {ACTION_LOOKUP(k) : k \in {x \in ActivationKeys : st[x]}}
           acts == ItemActivities(item)
       IN  \E n \in 1..Len(acts) : acts[n] # NoType /\ acts[n] \in actionTypes

\* a first activity without a category classified like no activity at all
getItemActivationTypeOrEmpty(item) ==
  IF ~HasActivities(item)
  THEN "empty"
  ELSE LET firstActivity == ItemActivities(item)[1]
       IN  IF firstActivity = NoType THEN "empty" ELSE firstActivity

getItemActivationType(item) ==
  IF ~HasActivities(item)
  THEN "empty"
  ELSE LET firstActivity == ItemActivities(item)[1]
       IN  IF firstActivity = NoType THEN "none" ELSE firstActivity

isSpell(item) == item # Undefined /\ ItemType(item) = "spell"

filterItemsByType(items, filter) ==
  IF filter = NoFilter THEN items
  ELSE IF filter = "spell" THEN SelectSeq(items, isSpell)
  ELSE SelectSeq(items, LAMBDA i : getItemActivationType(i) = filter)

\* a _filterItems that matches on any activity of the item, not the first
FilterApplication_filterItemsAny(collected, filter) ==
  IF filter = NoFilter THEN collected
  ELSE IF filter = "spell"
       THEN SelectSeq(collected,
                      LAMBDA item : item # Undefined /\ ItemType(item) = "spell")
  ELSE SelectSeq(collected, LAMBDA item :
         IF ~HasActivities(item) THEN FALSE
         ELSE \E n \in DOMAIN ItemActivities(item) :
                ItemActivities(item)[n] = filter)

\* FilterApplication._filterItems (filter-app.mjs), over this.collectedItems
FilterApplication_filterItems(collected, filter) ==
  IF filter = NoFilter THEN collected
  ELSE IF filter = "spell"
       THEN SelectSeq(collected,
                      LAMBDA item : item # Undefined /\ ItemType(item) = "spell")
  ELSE SelectSeq(collected, LAMBDA item :
         IF ~HasActivities(item) THEN FALSE
         ELSE LET firstActivity == ItemActivities(item)[1]
              IN  firstActivity = filter)

\* filters of the buttons buildFilterHTML builds
FilterIds == {NoFilter, "action", "bonus", "reaction", "spell"}

\* the return value '' of buildFilterHTML: no controls
NoControls == <<>>

\* a buildFilterHTML without the early return of lines 115-117
buildFilterHTMLUnguarded(items, active) ==
  [f \in FilterIds |->
     LET count == Len(filterItemsByType(items, f))
     IN  [count |-> count, isActive |-> (active = f), isDisabled |-> (count = 0)]]

\* buildFilterHTML: per button its count, active class and disabled attribute
buildFilterHTML(items, active) ==
  IF Len(items) = 0 THEN NoControls
  ELSE [f \in FilterIds |->
          LET count == Len(filterItemsByType(items, f))
          IN  [count |-> count, isActive |-> (active = f),
               isDisabled |-> (count = 0)]]

\* the buttons a render leaves enabled (count > 0); none when nothing is collected
EnabledButtons(items) ==
  IF Len(items) = 0 THEN {}
  ELSE {f \in FilterIds : Len(filterItemsByType(items, f)) > 0}

(***************************************************************************)
(* The selection aggregator (updateMacrosForSelectedTokens, lines 239-263).*)
(***************************************************************************)
itemByRelUuid(items, fav) ==
  LET hits == {n \in 1..Len(items) : getRelativeUUID(items[n]) = fav.id}
  IN  IF hits = {} THEN Undefined ELSE items[Min(hits)]

RECURSIVE MapFavorites(_, _)
MapFavorites(items, favs) ==
  IF favs = <<>> THEN <<>>
  ELSE <<itemByRelUuid(items, Head(favs))>> \o MapFavorites(items, Tail(favs))

\* the loop body without the favorites branch of lines 247-257
TokenItemsOfActor(token, st) ==
  LET actor == TokenActor(token)
  IN  IF actor = NoActor THEN <<>>
      ELSE SelectSeq(ActorItems(actor), LAMBDA i : isItemAction(i, st))

TokenItems(token, st) ==
  LET actor == TokenActor(token)
      items == ActorItems(actor)
      favorites == ActorFavorites(actor)
      candidates ==
        IF Len(favorites) > 0
        THEN MapFavorites(items, SelectSeq(favorites, LAMBDA fav : fav.type = "item"))
        ELSE items
  IN  IF actor = NoActor THEN <<>>
      ELSE SelectSeq(candidates, LAMBDA i : isItemAction(i, st))

\* an aggregator that leaves out the items an earlier token has contributed
RECURSIVE CollectItemsOnce(_, _)
CollectItemsOnce(selectedTokens, st) ==
  IF selectedTokens = <<>> THEN <<>>
  ELSE LET n == Len(selectedTokens)
           before == CollectItemsOnce(SubSeq(selectedTokens, 1, n - 1), st)
       IN  before \o SelectSeq(TokenItems(selectedTokens[n], st),
                               LAMBDA i : i \notin SeqToSet(before))

RECURSIVE CollectItems(_, _)
CollectItems(selectedTokens, st) ==
  IF selectedTokens = <<>> THEN <<>>
  ELSE TokenItems(Head(selectedTokens), st) \o CollectItems(Tail(selectedTokens), st)

(***************************************************************************)
(* The host's hotbar and macro directory as main.mjs reads them.           *)
(***************************************************************************)
NoMacroDoc == [exists |-> FALSE, auto |-> FALSE, item |-> ""]

\* game.macros.get(id): the document, or nothing for a missing or unknown id
MacroOf(hb, ms, slot) ==
  IF hb[slot] # NoId /\ ms[hb[slot]].exists THEN hb[slot] ELSE NoId

\* game.user.getHotbarMacros(page): {slot, macro} in ascending slot order
getHotbarMacros(hb, ms, page) ==
  [n \in 1..SlotsPerPage |->
     LET slot == (page - 1) * SlotsPerPage + n
     IN  [slot |-> slot, macro |-> MacroOf(hb, ms, slot)]]

\* destroyMacros, lines 320-323: the ids of the flagged macros of the page
AutoMacroIdsOnPage(hb, ms, page) ==
  LET sms == getHotbarMacros(hb, ms, page)
  IN  {sms[n].macro : n \in {k \in 1..Len(sms) :
                               sms[k].macro # NoId /\ ms[sms[k].macro].auto}}

\* the filter inverted: the occupied slots taken for the free ones
FreeSlotsOccupied(hb, ms, page) ==
  LET sms == getHotbarMacros(hb, ms, page)
      taken == SelectSeq(sms, LAMBDA sm : sm.macro # NoId)
  IN  [n \in 1..Len(taken) |-> taken[n].slot]

\* lines 190-192 and 291-293
FreeSlots(hb, ms, page) ==
  LET sms == getHotbarMacros(hb, ms, page)
      free == SelectSeq(sms, LAMBDA sm : sm.macro = NoId)
  IN  [n \in 1..Len(free) |-> free[n].slot]

\* items.slice(0, freeSlots.length)
Slice(items, n) == SubSeq(items, 1, IF n < Len(items) THEN n ELSE Len(items))

\* createMacroData reads item.name: a TypeError when the item is undefined
CreateThrows(items) == Undefined \in SeqToSet(items)

\* identities the host gives to n new documents: never one that exists, that a
\* slot still refers to, or that a pass in flight has read (reserved)
FreshIds(hb, ms, reserved, n) ==
  LET unused == {id \in AutoMacroIds \ reserved :
                   ~ms[id].exists /\ \A s \in Slots : hb[s] # id}
  IN  SubSeq(SetToSortedSeq(unused), 1, n)

\* an update that assigns the first new macro only
AssignSlotsFirstOnly(hb, freeSlots, newIds) ==
  [s \in Slots |-> IF Len(newIds) > 0 /\ freeSlots[1] = s THEN newIds[1] ELSE hb[s]]

\* freeSlots.pop() in place of freeSlots.shift()
AssignSlotsFromLast(hb, freeSlots, newIds) ==
  [s \in Slots |->
     LET hits == {n \in 1..Len(newIds) : freeSlots[Len(freeSlots) + 1 - n] = s}
     IN  IF hits = {} THEN hb[s] ELSE newIds[Min(hits)]]

\* the update built on an empty object in place of the clone of the hotbar
AssignSlotsFromEmpty(hb, freeSlots, newIds) ==
  [s \in Slots |->
     LET hits == {n \in 1..Len(newIds) : freeSlots[n] = s}
     IN  IF hits = {} THEN NoId ELSE newIds[Min(hits)]]

\* lines 206-212 and 306-312: the clone with one new macro per free slot
AssignSlots(hb, freeSlots, newIds) ==
  [s \in Slots |->
     LET hits == {n \in 1..Len(newIds) : freeSlots[n] = s}
     IN  IF hits = {} THEN hb[s] ELSE newIds[Min(hits)]]

(***************************************************************************)
(* State.                                                                  *)
(***************************************************************************)
VARIABLES
  controlled,      \* canvas.tokens.controlled, in the host's order
  settings,        \* game.settings of the module
  isGM,            \* game.user.isGM
  hotbar,          \* game.user.hotbar: slot -> macro id
  macros,          \* game.macros: id -> document
  updateTimeout,   \* main.mjs:23
  timers,          \* the timeouts the host has pending
  promises,        \* every promise chained so far, in the order of chaining
  workQueue,       \* main.mjs:22: the tail promise (0: Promise.resolve())
  currentFilter,   \* main.mjs:24
  collectedItems,  \* main.mjs:25
  filterButtons,   \* the enabled filter buttons rendered so far
  passes,          \* the locals of each pass in flight, by promise
  events,          \* environment events so far
  failures,        \* rejected host calls so far
  history,         \* what the properties below refer back to
  probe            \* the last application of a pure function and its result

vars == << controlled, settings, isGM, hotbar, macros, updateTimeout, timers,
           promises, workQueue, currentFilter, collectedItems, filterButtons,
           passes, events, failures, history, probe >>

hostVars == << controlled, settings, isGM, hotbar, macros >>

\* Promise.resolve() of line 22
Resolved == 0

EmptyHotbar == [s \in Slots |-> NoId]

\* what a slot shows: the item of the macro in it, "" for none
EntityLayout(hb, ms) ==
  [s \in Slots |-> IF hb[s] # NoId /\ ms[hb[s]].exists THEN ms[hb[s]].item ELSE ""]

\* no pure function applied yet
NoProbe == [op |-> "none"]

NoPrev ==
  [ ok |-> FALSE, entities |-> <<>>, changes |-> 0, layout |-> [s \in Slots |-> ""],
    repeat |-> FALSE, same |-> FALSE ]

Init ==
  /\ controlled = <<>>
  /\ settings = DefaultSettings
  /\ isGM \in BOOLEAN
  /\ hotbar = EmptyHotbar
  /\ macros = [id \in MacroIds |->
                 IF id \in UserMacroIds
                 THEN [exists |-> TRUE, auto |-> FALSE, item |-> "user"]
                 ELSE NoMacroDoc]
  /\ updateTimeout = NoTimer
  /\ timers = {}
  /\ promises = <<>>
  /\ workQueue = Resolved
  /\ currentFilter = NoFilter
  /\ collectedItems = <<>>
  /\ filterButtons = {}
  /\ passes = <<>>
  /\ events = 0
  /\ failures = 0
  /\ probe = NoProbe
  /\ history = [ notifySel |-> <<>>,   \* the selection at the last scheduleUpdate
                 stale |-> FALSE,      \* a setting or a slot changed after that call
                 bursts |-> 0,         \* scheduleUpdate calls that found no timer pending
                 changes |-> 0,        \* setting changes and hotbar edits so far
                 prev |-> NoPrev ]     \* the pass that completed last

(***************************************************************************)
(* The debounce (scheduleUpdate, controlTokenHook) and the filter click.   *)
(***************************************************************************)
\* a callback of the chain is due: its promise waits on a settled one.  The
\* host runs such a callback (a microtask) before it handles any other event.
Due(i) ==
  /\ promises[i].state = "waiting"
  /\ IF promises[i].pred = Resolved THEN TRUE
     ELSE promises[promises[i].pred].state \in {"fulfilled", "rejected"}

\* the event loop is free to handle the next event
NothingDue == \A i \in 1..Len(promises) : ~Due(i)

\* scheduleUpdate without an effective clearTimeout
ClearedTimersKept(ts, handle) == ts

\* lines 335-337: clearTimeout of the pending handle
ClearedTimers(ts, handle) == IF handle # NoTimer THEN ts \ {handle} ELSE ts

\* scheduleUpdate without the clearTimeout of lines 335-337
scheduleUpdateNoClear ==
  \E h \in TimerIds \ timers :
    /\ h = Min(TimerIds \ timers)
    /\ timers' = timers \cup {h}
    /\ updateTimeout' = h

\* scheduleUpdate, lines 333-344, up to the setTimeout
scheduleUpdate ==
  \E h \in TimerIds :
    /\ h = Min(TimerIds \ ClearedTimers(timers, updateTimeout))
    /\ timers' = ClearedTimers(timers, updateTimeout) \cup {h}
    /\ updateTimeout' = h

\* the callback chained on a fresh promise instead of on workQueue
ChainDetached(kind) ==
  /\ promises' = Append(promises, [kind |-> kind, pred |-> Resolved,
                                   state |-> "waiting", called |-> FALSE,
                                   notifySel |-> history.notifySel])
  /\ workQueue' = Len(promises) + 1

\* workQueue = workQueue.then(callback)
Chain(kind) ==
  /\ promises' = Append(promises, [kind |-> kind, pred |-> workQueue,
                                   state |-> "waiting", called |-> FALSE,
                                   notifySel |-> history.notifySel])
  /\ workQueue' = Len(promises) + 1

\* the host's selection after token t is controlled or released
Toggle(sel, t) ==
  IF t \in SeqToSet(sel) THEN SelectSeq(sel, LAMBDA x : x # t) ELSE Append(sel, t)

\* controlTokenHook without the test of lines 347-348
ControlTokenUngated(t) ==
  /\ NothingDue
  /\ events < MaxEvents
  /\ events' = events + 1
  /\ controlled' = Toggle(controlled, t)
  /\ scheduleUpdate
  /\ history' = [history EXCEPT
       !.notifySel = controlled',
       !.stale = FALSE,
       !.bursts = IF timers = {} THEN @ + 1 ELSE @]
  /\ UNCHANGED << settings, isGM, hotbar, macros, promises, workQueue,
                  currentFilter, collectedItems, filterButtons, passes, failures >>

\* the host controls or releases token t and calls controlTokenHook
ControlToken(t) ==
  /\ NothingDue
  /\ events < MaxEvents
  /\ events' = events + 1
  /\ controlled' = Toggle(controlled, t)
  /\ IF settings.onlyGMs /\ ~isGM
     THEN UNCHANGED << updateTimeout, timers, history >>
     ELSE /\ scheduleUpdate
          /\ history' = [history EXCEPT
               !.notifySel = controlled',
               !.stale = FALSE,
               !.bursts = IF timers = {} THEN @ + 1 ELSE @]
  /\ UNCHANGED << settings, isGM, hotbar, macros, promises, workQueue,
                  currentFilter, collectedItems, filterButtons, passes, failures >>

\* the timeout of lines 340-343 elapses
TimerFires(h) ==
  /\ NothingDue
  /\ h \in timers
  /\ timers' = timers \ {h}
  /\ Chain("sel")
  /\ updateTimeout' = NoTimer
  /\ UNCHANGED << hostVars, currentFilter, collectedItems, filterButtons,
                  passes, events, failures, history >>

\* a click on an enabled filter button: handleFilterClick(filter)
FilterClick(filter) ==
  /\ NothingDue
  /\ events < MaxEvents
  /\ events' = events + 1
  /\ filter \in filterButtons
  /\ currentFilter' = filter
  /\ Chain("filter")
  /\ UNCHANGED << hostVars, updateTimeout, timers, collectedItems,
                  filterButtons, passes, failures, history >>

(***************************************************************************)
(* The environment: settings changed by a GM, the hotbar edited by hand.   *)
(***************************************************************************)
\* the boolean settings that make a difference to the items of this world
BooleanKeys == {"onlyGMs", "action", "empty", "experimentalFilters"}

ChangeSetting ==
  /\ NothingDue
  /\ events < MaxEvents
  /\ events' = events + 1
  /\ \/ \E p \in Pages \ {settings.hotbarPage} :
          settings' = [settings EXCEPT !.hotbarPage = p]
     \/ \E k \in BooleanKeys : settings' = [settings EXCEPT ![k] = ~settings[k]]
  /\ history' = [history EXCEPT !.changes = @ + 1, !.stale = TRUE]
  /\ UNCHANGED << controlled, isGM, hotbar, macros, updateTimeout, timers,
                  promises, workQueue, currentFilter, collectedItems,
                  filterButtons, passes, failures >>

\* the user drags one of their own macros to a slot, or empties a slot.  The
\* host applies the updates of the user document in the order they were
\* issued, and a pass issues its update in the turn in which it clones the
\* hotbar (lines 206-215), so an edit is ordered before the clone or after
\* the write, never between them.
UserEdit(slot, id) ==
  /\ NothingDue
  /\ \A i \in DOMAIN passes : passes[i].pc # "updating"
  /\ events < MaxEvents
  /\ events' = events + 1
  /\ hotbar[slot] # id
  /\ hotbar' = [hotbar EXCEPT ![slot] = id]
  /\ history' = [history EXCEPT !.changes = @ + 1, !.stale = TRUE]
  /\ UNCHANGED << controlled, settings, isGM, macros, updateTimeout, timers,
                  promises, workQueue, currentFilter, collectedItems,
                  filterButtons, passes, failures >>

(***************************************************************************)
(* A reconciliation pass: updateMacrosForSelectedTokens or                 *)
(* updateMacrosForFilter, called by the promise chain and suspended at     *)
(* each awaited host call.                                                 *)
(***************************************************************************)
\* renderHotbarHook after ui.hotbar.render(): the buttons it adds
Rendered(buttons, st, items) ==
  IF st.experimentalFilters THEN buttons \cup EnabledButtons(items) ELSE buttons

\* a cleanup that finds no flagged macro
destroyMacrosNothing(hb, ms, st) == {}

\* destroyMacros calling getHotbarMacros() without the page: the host's page 1
destroyMacrosFirstPage(hb, ms, st) == AutoMacroIdsOnPage(hb, ms, Min(Pages))

\* destroyMacros, lines 319-327, up to the await
destroyMacros(hb, ms, st) == AutoMacroIdsOnPage(hb, ms, st.hotbarPage)

\* a deletion that deletes nothing
DeletedNone(ms, ids) == ms

\* Macro.deleteDocuments(ids) done
Deleted(ms, ids) == [id \in MacroIds |-> IF id \in ids THEN NoMacroDoc ELSE ms[id]]

\* Macro.create(macroData) done: one flagged document per entry
Created(ms, newIds, macroData) ==
  [id \in MacroIds |->
     LET hits == {n \in 1..Len(newIds) : newIds[n] = id}
     IN  IF hits = {} THEN ms[id]
         ELSE [exists |-> TRUE, auto |-> TRUE, item |-> macroData[Min(hits)]]]

\* a selection pass that takes the unfiltered path whatever the feature flag
SelectionBranchUnfiltered(selectedTokens, allItems, st) ==
  IF Len(selectedTokens) = 0 \/ Len(allItems) = 0 THEN "clear"
  ELSE "direct"

\* the branch updateMacrosForSelectedTokens takes, lines 228-285
SelectionBranch(selectedTokens, allItems, st) ==
  IF Len(selectedTokens) = 0 \/ Len(allItems) = 0 THEN "clear"
  ELSE IF st.experimentalFilters THEN "filter"
  ELSE "direct"

\* a callback that does not return the promise of its pass: the promise is
\* fulfilled as soon as the callback has been called
FulfilledAtCall(p) ==
  IF p = Resolved THEN TRUE ELSE promises[p].state \in {"running", "fulfilled"}

\* promise p has settled as fulfilled: its .then callbacks are called
Fulfilled(p) == IF p = Resolved THEN TRUE ELSE promises[p].state = "fulfilled"

NewPass ==
  [ pc |-> "deleting", branch |-> "none", macroIds |-> {}, items |-> <<>>,
    hotbarPage |-> settings.hotbarPage, freeSlots |-> <<>>, macroData |-> <<>>,
    update |-> EmptyHotbar,
    \* what the properties below refer back to
    selectedTokens |-> <<>>, startPage |-> settings.hotbarPage,
    startHotbar |-> hotbar, startMacros |-> macros,
    entities |-> <<>>, planHotbar |-> EmptyHotbar, planMacros |-> macros,
    cloned |-> EmptyHotbar, changes |-> history.changes ]

Without(f, i) == [j \in DOMAIN f \ {i} |-> f[j]]
With(f, i, v) == [j \in DOMAIN f \cup {i} |-> IF j = i THEN v ELSE f[j]]

\* the promise chain calls callback i: the pass runs to its first await
StartPass(i) ==
  /\ promises[i].state = "waiting"
  /\ Fulfilled(promises[i].pred)
  /\ promises' = [promises EXCEPT ![i].state = "running", ![i].called = TRUE]
  /\ LET kind == promises[i].kind
         allItems == CollectItems(controlled, settings)
         branch == IF kind = "filter" THEN "filter"
                   ELSE SelectionBranch(controlled, allItems, settings)
     IN  /\ collectedItems' =
              IF kind = "filter" THEN collectedItems
              ELSE IF Len(controlled) = 0 THEN <<>> ELSE allItems
         /\ currentFilter' =
              IF kind = "sel" /\ branch \in {"clear", "direct"}
              THEN NoFilter ELSE currentFilter
         /\ passes' = With(passes, i, [NewPass EXCEPT
                         !.branch = branch,
                         !.items = IF branch = "direct" THEN allItems ELSE <<>>,
                         !.macroIds = destroyMacros(hotbar, macros, settings),
                         !.selectedTokens = IF kind = "sel" THEN controlled ELSE <<>>])
  /\ UNCHANGED << hostVars, updateTimeout, timers, workQueue, filterButtons,
                  events, failures, history >>

\* the callback of a promise whose predecessor is rejected is never called:
\* the promise is rejected in its turn
SkipRejected(i) ==
  /\ promises[i].state = "waiting"
  /\ promises[i].pred # Resolved
  /\ promises[promises[i].pred].state = "rejected"
  /\ promises' = [promises EXCEPT ![i].state = "rejected"]
  /\ UNCHANGED << hostVars, updateTimeout, timers, workQueue, currentFilter,
                  collectedItems, filterButtons, passes, events, failures, history >>

\* pass i returns (ok) or throws (~ok); entities: the items it had to place
Finish(i, ok, render, entities) ==
  /\ promises' = [promises EXCEPT ![i].state = IF ok THEN "fulfilled" ELSE "rejected"]
  /\ passes' = Without(passes, i)
  /\ filterButtons' = IF render THEN Rendered(filterButtons, settings, collectedItems)
                      ELSE filterButtons
  /\ history' = [history EXCEPT !.prev =
       [ ok |-> ok, entities |-> entities, changes |-> passes[i].changes,
         layout |-> EntityLayout(hotbar', macros'),
         \* the pass before completed, had the same items to place, and no
         \* setting or hotbar edit happened since it started
         repeat |-> ok /\ history.prev.ok /\ history.prev.entities = entities
                    /\ history.prev.changes = history.changes,
         same |-> EntityLayout(hotbar', macros') = history.prev.layout ]]

\* a filter branch that places the whole cache whatever the active filter
ItemsToPlaceUnfiltered(i) ==
  IF passes[i].branch = "direct" THEN passes[i].items
  ELSE IF passes[i].branch = "filter" THEN collectedItems
  ELSE <<>>

\* the items to place after the cleanup: lines 173-187, or allItems (line 295)
ItemsToPlace(i) ==
  IF passes[i].branch = "direct" THEN passes[i].items
  ELSE IF passes[i].branch = "filter"
       THEN filterItemsByType(collectedItems, currentFilter)
  ELSE <<>>

\* Macro.deleteDocuments resolves; pass i runs on to Macro.create or returns
DeleteDone(i) ==
  /\ i \in DOMAIN passes
  /\ NothingDue
  /\ passes[i].pc = "deleting"
  /\ macros' = Deleted(macros, passes[i].macroIds)
  /\ UNCHANGED << controlled, settings, isGM, hotbar, updateTimeout, timers,
                  workQueue, currentFilter, collectedItems, events, failures >>
  /\ LET items == ItemsToPlace(i)
         hotbarPage == settings.hotbarPage
         freeSlots == FreeSlots(hotbar, macros', hotbarPage)
         sliced == Slice(items, Len(freeSlots))
         render == passes[i].branch # "direct"
     IN  IF Len(items) = 0 THEN Finish(i, TRUE, render, items)
         ELSE IF CreateThrows(sliced) THEN Finish(i, FALSE, FALSE, items)
         ELSE IF Len(sliced) = 0 THEN Finish(i, TRUE, render, items)
         ELSE /\ passes' = [passes EXCEPT
                   ![i].pc = "creating", ![i].hotbarPage = hotbarPage,
                   ![i].freeSlots = freeSlots, ![i].macroData = sliced,
                   ![i].entities = items, ![i].planHotbar = hotbar,
                   ![i].planMacros = macros']
              /\ UNCHANGED << promises, filterButtons, history >>

\* Macro.create resolves; pass i clones the hotbar and calls game.user.update
CreateDone(i) ==
  /\ i \in DOMAIN passes
  /\ NothingDue
  /\ passes[i].pc = "creating"
  /\ LET reserved == UNION {passes[j].macroIds : j \in DOMAIN passes}
         newIds == FreshIds(hotbar, macros, reserved, Len(passes[i].macroData))
     IN  /\ macros' = Created(macros, newIds, passes[i].macroData)
         /\ passes' = [passes EXCEPT
              ![i].pc = "updating", ![i].cloned = hotbar,
              ![i].update = AssignSlots(hotbar, passes[i].freeSlots, newIds)]
  /\ UNCHANGED << controlled, settings, isGM, hotbar, updateTimeout, timers,
                  promises, workQueue, currentFilter, collectedItems,
                  filterButtons, events, failures, history >>

\* game.user.update resolves: the hotbar is replaced as a whole
UpdateDone(i) ==
  /\ i \in DOMAIN passes
  /\ NothingDue
  /\ passes[i].pc = "updating"
  /\ hotbar' = passes[i].update
  /\ UNCHANGED << controlled, settings, isGM, macros, updateTimeout, timers,
                  workQueue, currentFilter, collectedItems, events, failures >>
  /\ Finish(i, TRUE, passes[i].branch = "filter", passes[i].entities)

\* a rejected call that the pass awaits once more instead of throwing
HostRejectsRetried(i) ==
  /\ i \in DOMAIN passes
  /\ NothingDue
  /\ failures < MaxHostFailures
  /\ failures' = failures + 1
  /\ UNCHANGED << hostVars, updateTimeout, timers, workQueue, currentFilter,
                  collectedItems, events, promises, passes, filterButtons, history >>

\* the host rejects the call pass i awaits: the pass throws, nothing is applied
HostRejects(i) ==
  /\ i \in DOMAIN passes
  /\ NothingDue
  /\ failures < MaxHostFailures
  /\ failures' = failures + 1
  /\ UNCHANGED << hostVars, updateTimeout, timers, workQueue, currentFilter,
                  collectedItems, events >>
  /\ Finish(i, FALSE, FALSE, passes[i].entities)

PromiseIds == 1..Len(promises)

Next ==
  \/ \E t \in Tokens : ControlToken(t) /\ UNCHANGED probe
  \/ \E h \in TimerIds : TimerFires(h) /\ UNCHANGED probe
  \/ \E f \in FilterIds : FilterClick(f) /\ UNCHANGED probe
  \/ ChangeSetting /\ UNCHANGED probe
  \/ \E s \in Slots, id \in UserMacroIds \cup {NoId} : UserEdit(s, id) /\ UNCHANGED probe
  \/ \E i \in PromiseIds : StartPass(i) /\ UNCHANGED probe
  \/ \E i \in PromiseIds : SkipRejected(i) /\ UNCHANGED probe
  \/ \E i \in PromiseIds : DeleteDone(i) /\ UNCHANGED probe
  \/ \E i \in PromiseIds : CreateDone(i) /\ UNCHANGED probe
  \/ \E i \in PromiseIds : UpdateDone(i) /\ UNCHANGED probe
  \/ \E i \in PromiseIds : HostRejects(i) /\ UNCHANGED probe

Spec == Init /\ [][Next]_vars

(***************************************************************************)
(* The module in a world whose stored settings have the experimental       *)
(* filters on when the session starts.                                     *)
(***************************************************************************)
FilterInit ==
  /\ controlled = <<>>
  /\ settings = [DefaultSettings EXCEPT !.experimentalFilters = TRUE]
  /\ isGM \in BOOLEAN
  /\ hotbar = EmptyHotbar
  /\ macros = [id \in MacroIds |->
                 IF id \in UserMacroIds
                 THEN [exists |-> TRUE, auto |-> FALSE, item |-> "user"]
                 ELSE NoMacroDoc]
  /\ updateTimeout = NoTimer
  /\ timers = {}
  /\ promises = <<>>
  /\ workQueue = Resolved
  /\ currentFilter = NoFilter
  /\ collectedItems = <<>>
  /\ filterButtons = {}
  /\ passes = <<>>
  /\ events = 0
  /\ failures = 0
  /\ probe = NoProbe
  /\ history = [ notifySel |-> <<>>, stale |-> FALSE, bursts |-> 0,
                 changes |-> 0, prev |-> NoPrev ]

FilterSpec == FilterInit /\ [][Next]_vars

(***************************************************************************)
(* The pure functions of the eligibility filter and of the aggregator,     *)
(* applied to every item, every token and every selection under every      *)
(* combination of the six toggles.                                         *)
(***************************************************************************)
\* the six toggles of initHook
ToggleKeys == ActivationKeys \cup {"empty"}

\* every combination of the six toggles, the other settings at their defaults
ToggleSettings ==
  {[k \in DOMAIN DefaultSettings |->
      IF k \in ToggleKeys THEN on[k] ELSE DefaultSettings[k]] :
     on \in [ToggleKeys -> BOOLEAN]}

\* canvas.tokens.controlled: up to MaxSelected different tokens in any order
Selections ==
  {sel \in UNION {[1..n -> AllTokens] : n \in 0..MaxSelected} :
     \A i, j \in DOMAIN sel : i # j => sel[i] # sel[j]}

FnInit ==
  /\ isGM = TRUE
  /\ hotbar = EmptyHotbar
  /\ macros = [id \in MacroIds |->
                 IF id \in UserMacroIds
                 THEN [exists |-> TRUE, auto |-> FALSE, item |-> "user"]
                 ELSE NoMacroDoc]
  /\ updateTimeout = NoTimer
  /\ timers = {}
  /\ promises = <<>>
  /\ workQueue = Resolved
  /\ currentFilter = NoFilter
  /\ collectedItems = <<>>
  /\ filterButtons = {}
  /\ passes = <<>>
  /\ events = 0
  /\ failures = 0
  /\ probe = NoProbe
  /\ history = [ notifySel |-> <<>>, stale |-> FALSE, bursts |-> 0,
                 changes |-> 0, prev |-> NoPrev ]
  /\ settings \in ToggleSettings
  /\ controlled \in Selections

\* isItemAction(item) and getItemActivationType(item)
Classify(item) ==
  /\ probe = NoProbe
  /\ probe' = [op |-> "classify", item |-> item,
               eligible |-> isItemAction(item, settings),
               category |-> getItemActivationType(item)]
  /\ UNCHANGED << controlled, settings, isGM, hotbar, macros, updateTimeout,
                  timers, promises, workQueue, currentFilter, collectedItems,
                  filterButtons, passes, events, failures, history >>

\* one turn of the loop of lines 240-263, for the k-th selected token
Candidates(k) ==
  /\ k \in 1..Len(controlled)
  /\ probe = NoProbe
  /\ probe' = [op |-> "token", token |-> controlled[k],
               items |-> TokenItems(controlled[k], settings)]
  /\ UNCHANGED << controlled, settings, isGM, hotbar, macros, updateTimeout,
                  timers, promises, workQueue, currentFilter, collectedItems,
                  filterButtons, passes, events, failures, history >>

\* lines 239-266: allItems, stored in collectedItems
Aggregate ==
  /\ probe = NoProbe
  /\ collectedItems' = CollectItems(controlled, settings)
  /\ probe' = [op |-> "aggregate", allItems |-> collectedItems']
  /\ UNCHANGED << controlled, settings, isGM, hotbar, macros, updateTimeout,
                  timers, promises, workQueue, currentFilter,
                  filterButtons, passes, events, failures, history >>

\* buildFilterHTML() over the cache of the selection, the active filter being
\* any of the five a click can have set
BuildFilters(filter) ==
  /\ probe = NoProbe
  /\ collectedItems' = CollectItems(controlled, settings)
  /\ currentFilter' = filter
  /\ probe' = [op |-> "filters",
               html |-> buildFilterHTML(collectedItems', currentFilter')]
  /\ UNCHANGED << controlled, settings, isGM, hotbar, macros, updateTimeout,
                  timers, promises, workQueue,
                  filterButtons, passes, events, failures, history >>

\* FilterApplication._filterItems(filter) and filterItemsByType(items, filter)
\* over the same list, the aggregate of the selection
FilterItems(filter) ==
  /\ probe = NoProbe
  /\ collectedItems' = CollectItems(controlled, settings)
  /\ probe' = [op |-> "filterItems", filter |-> filter,
               app |-> FilterApplication_filterItems(collectedItems', filter),
               main |-> filterItemsByType(collectedItems', filter)]
  /\ UNCHANGED << controlled, settings, isGM, hotbar, macros, updateTimeout,
                  timers, promises, workQueue, currentFilter,
                  filterButtons, passes, events, failures, history >>

FnNext ==
  \/ \E item \in Entities : Classify(item)
  \/ \E k \in 1..MaxSelected : Candidates(k)
  \/ Aggregate
  \/ \E filter \in FilterIds : BuildFilters(filter)
  \/ \E filter \in FilterIds : FilterItems(filter)

FnSpec == FnInit /\ [][FnNext]_vars

(***************************************************************************)
(* Properties.                                                             *)
(***************************************************************************)
Settled(i) == promises[i].state \in {"fulfilled", "rejected"}
SelPromises == {i \in PromiseIds : promises[i].kind = "sel"}

\* C1: at most one reconciliation pass, selection-triggered or
\* filter-triggered, has started and not yet completed.
C1_AtMostOnePassInFlight == Cardinality(DOMAIN passes) <= 1

\* a pass is suspended at a host call while another request waits behind it
C1_Witness ==
  \E i \in DOMAIN passes : \E j \in PromiseIds :
    j > i /\ promises[j].state = "waiting"

C3_QueueAdvancesAfterFailure ==
  \A i \in PromiseIds : promises[i].state = "rejected" => promises[i].called

\* C4: passes start in the order their requests were enqueued, and none
\* starts before every request enqueued earlier has completed.
C4_FifoOrder ==
  \A i, j \in PromiseIds : (i < j /\ promises[j].called) => Settled(i)

\* a filter-triggered pass runs after the selection-triggered pass enqueued
\* before it has completed
C4_Witness ==
  \E i, j \in PromiseIds :
    /\ i < j
    /\ promises[i].kind = "sel" /\ promises[i].state = "fulfilled"
    /\ promises[j].kind = "filter" /\ promises[j].state = "running"

\* the flagged macros in the slots of the target page when pass i started
MarkedAtStart(i) ==
  {id \in MacroIds :
     /\ passes[i].startMacros[id].exists
     /\ passes[i].startMacros[id].auto
     /\ \E s \in PageSlots(passes[i].startPage) : passes[i].startHotbar[s] = id}

\* pass i returns in this step
Returns(i) ==
  i \in DOMAIN passes /\ i \notin DOMAIN passes' /\ promises'[i].state = "fulfilled"

\* C5: every pass deletes every flagged macro in a slot of the target page,
\* and the deletion is complete before the pass creates or assigns a macro;
\* also when the pass has nothing to place and returns after the cleanup.
C5_CleanupBeforePlacement ==
  /\ [](\A i \in DOMAIN passes :
          passes[i].pc \in {"creating", "updating"}
          => \A id \in MarkedAtStart(i) : ~macros[id].exists)
  /\ [][\A i \in DOMAIN passes :
          (passes[i].pc = "deleting" /\ Returns(i))
          => \A id \in MarkedAtStart(i) : ~macros'[id].exists]_vars

\* a pass that found flagged macros of an earlier pass has deleted them and
\* is creating its own
C5_Witness ==
  \E i \in DOMAIN passes : passes[i].pc = "creating" /\ MarkedAtStart(i) # {}

UserPlaced(id) == id # NoId /\ macros[id].exists /\ ~macros[id].auto

\* C6: no pass overwrites a slot entry that lacks the flag (every slot of the
\* target page that holds a macro of the user's when the pass builds its bulk
\* write holds the same macro in what it writes), and no macro of the user's
\* is deleted.
C6_UserEntriesKept ==
  /\ \A id \in UserMacroIds : macros[id].exists
  /\ \A i \in DOMAIN passes :
       passes[i].pc = "updating"
       => \A s \in PageSlots(passes[i].hotbarPage) :
            UserPlaced(passes[i].cloned[s]) => passes[i].update[s] = passes[i].cloned[s]

\* the free slots of pass i's target page after its cleanup, ascending
FreeAfterCleanup(i) ==
  SetToSortedSeq({s \in PageSlots(passes[i].hotbarPage) :
                    IF passes[i].planHotbar[s] = NoId THEN TRUE
                    ELSE ~passes[i].planMacros[passes[i].planHotbar[s]].exists})

\* C7: with E the items to place and F the free slots of the target page
\* after the cleanup, ascending, the pass writes a new flagged macro of E[n]
\* into F[n] for n up to min(|E|, |F|) and writes no other slot.
C7_PlacesFirstItemsInLowestFreeSlots ==
  \A i \in DOMAIN passes :
    passes[i].pc = "updating"
    => LET E == passes[i].entities
           F == FreeAfterCleanup(i)
           k == IF Len(E) < Len(F) THEN Len(E) ELSE Len(F)
           upd == passes[i].update
       IN  /\ k >= 1
           /\ \A n \in 1..k :
                /\ upd[F[n]] # passes[i].cloned[F[n]]
                /\ macros[upd[F[n]]] = [exists |-> TRUE, auto |-> TRUE, item |-> E[n]]
           /\ \A s \in Slots \ {F[n] : n \in 1..k} : upd[s] = passes[i].cloned[s]
           /\ Cardinality({id \in MacroIds :
                             macros[id].exists /\ ~passes[i].planMacros[id].exists}) = k

\* more items than free slots: the first is placed, the others are dropped
C7_Witness ==
  \E i \in DOMAIN passes :
    /\ passes[i].pc = "updating"
    /\ Len(FreeAfterCleanup(i)) >= 1
    /\ Len(passes[i].entities) > Len(FreeAfterCleanup(i))

\* the cleanup of pass i resolves in this step
CleanupResolves(i) ==
  /\ i \in DOMAIN passes
  /\ passes[i].pc = "deleting"
  /\ failures' = failures
  /\ (i \in DOMAIN passes' => passes'[i].pc # "deleting")

\* no slot of page p is free
PageFull(hb, ms, p) ==
  \A s \in PageSlots(p) : IF hb[s] = NoId THEN FALSE ELSE ms[hb[s]].exists

\* C8: when no slot of the target page is free after the cleanup and there
\* are items to place, the pass returns without an error: the cleanup is
\* done, no macro is created and no slot is written.
C8_NoFreeSlotReturnsQuietly ==
  [][\A i \in DOMAIN passes :
       (/\ CleanupResolves(i)
        /\ PageFull(hotbar, macros', settings.hotbarPage)
        /\ Len(ItemsToPlace(i)) > 0)
       => /\ Returns(i)
          /\ \A id \in MarkedAtStart(i) : ~macros'[id].exists
          /\ \A id \in MacroIds : macros'[id].exists => macros[id].exists
          /\ hotbar' = hotbar]_vars

\* a pass that had items to place has returned with the page still full of
\* the user's macros
C8_Witness ==
  /\ history.prev.ok
  /\ Len(history.prev.entities) > 0
  /\ passes = <<>>
  /\ \A s \in PageSlots(settings.hotbarPage) : history.prev.layout[s] = "user"

C10_Idempotent == history.prev.repeat => history.prev.same

\* the second of two selection-triggered passes in a row has placed an item
C10_Witness ==
  /\ history.prev.repeat
  /\ \E s \in Slots : history.prev.layout[s] \notin {"", "user"}
  /\ \E i \in PromiseIds :
       /\ i + 1 = Len(promises)
       /\ promises[i].kind = "sel" /\ promises[i].state = "fulfilled"
       /\ promises[i + 1].kind = "sel" /\ promises[i + 1].state = "fulfilled"


\* no timer is pending and no pass is queued or in flight
Quiescent ==
  /\ timers = {}
  /\ passes = <<>>
  /\ \A i \in PromiseIds : Settled(i)

\* slot s holds a flagged macro
AutoPlaced(s) ==
  IF hotbar[s] = NoId THEN FALSE
  ELSE macros[hotbar[s]].exists /\ macros[hotbar[s]].auto

\* the slots of the target page the user's macros leave free, ascending
SlotsLeftByUser ==
  SetToSortedSeq({s \in PageSlots(settings.hotbarPage) : ~UserPlaced(hotbar[s])})

\* C11: once the events have stopped with every host call successful, no
\* timer pending and no pass queued or in flight, the flagged entries of the
\* target page are the placement of the final selection: its items, under
\* the active filter, in the lowest slots the user's macros leave free.  (For
\* selections whose last change was notified and with no setting or slot
\* changed by hand after it.)
C11_QuiescentPlacementIsOfFinalSelection ==
  (/\ Quiescent
   /\ failures = 0
   /\ history.bursts > 0
   /\ ~history.stale
   /\ history.notifySel = controlled)
  => LET E == filterItemsByType(CollectItems(controlled, settings), currentFilter)
         F == SlotsLeftByUser
         k == IF Len(E) < Len(F) THEN Len(E) ELSE Len(F)
     IN  /\ \A n \in 1..k : AutoPlaced(F[n]) /\ macros[hotbar[F[n]]].item = E[n]
         /\ \A s \in PageSlots(settings.hotbarPage) \ {F[n] : n \in 1..k} :
              ~AutoPlaced(s)


\* C12: for every item and every combination of the six toggles,
\* isItemAction(item) is true exactly when the toggle of
\* getItemActivationType(item) is on.
C12_EligibleIffToggleOfCategory ==
  probe.op = "classify" => (probe.eligible <=> settings[probe.category])


C14_TypelessActivityAdmittedByNone ==
  (/\ probe.op = "classify"
   /\ probe.item # Undefined
   /\ ItemActivities(probe.item) = <<NoType>>)
  => (probe.eligible <=> settings.none)


\* C15: under every combination of the toggles the aggregate list has no
\* entry for a favorite that matches no item of its actor, so that no
\* createMacroData of the pass is given an absent item.
C15_UnresolvableFavoritesExcluded ==
  probe.op = "aggregate"
  => /\ Undefined \notin SeqToSet(probe.allItems)
     /\ ~CreateThrows(probe.allItems)


\* the favorites of type 'item' of actor a, each resolved to the item of a
\* with that relative UUID, or to the absent item
ResolvedFavorites(a) ==
  LET favs == SelectSeq(ActorFavorites(a), LAMBDA fav : fav.type = "item")
  IN  [n \in 1..Len(favs) |->
         IF \E i \in SeqToSet(ActorItems(a)) : getRelativeUUID(i) = favs[n].id
         THEN CHOOSE i \in SeqToSet(ActorItems(a)) : getRelativeUUID(i) = favs[n].id
         ELSE Undefined]

\* C16: for a token whose actor has a non-empty favorites list the candidates
\* are the favorites resolved against the actor's items, in favorites order,
\* and otherwise the actor's items; of the candidates those that pass
\* isItemAction are kept.
C16_FavoritesOverride ==
  (probe.op = "token" /\ TokenActor(probe.token) # NoActor)
  => LET a == TokenActor(probe.token)
         candidates == IF Len(ActorFavorites(a)) > 0
                       THEN ResolvedFavorites(a) ELSE ActorItems(a)
     IN  probe.items = SelectSeq(candidates, LAMBDA i : isItemAction(i, settings))

\* the candidates of an actor whose favorites are in another order than its
\* items: the favorites' order is kept and the item that is no favorite is left out
C16_Witness ==
  /\ probe.op = "token"
  /\ probe.token = "t6"
  /\ probe.items = <<"d2", "d1">>


\* the number of items the first k selected tokens contribute
RECURSIVE ItemsBefore(_)
ItemsBefore(k) ==
  IF k = 0 THEN 0
  ELSE ItemsBefore(k - 1) + Len(TokenItems(controlled[k], settings))

\* C17: the aggregate list is the lists of the selected tokens one after the
\* other, in the order of the selection, each in its own order: nothing is
\* sorted and nothing is left out, a token without an actor adds nothing, and
\* an item that two selected tokens share appears twice.
C17_AggregateIsConcatenation ==
  probe.op = "aggregate"
  => /\ Len(probe.allItems) = ItemsBefore(Len(controlled))
     /\ \A k \in 1..Len(controlled) :
          /\ TokenActor(controlled[k]) = NoActor
               => ItemsBefore(k) = ItemsBefore(k - 1)
          /\ \A n \in 1..Len(TokenItems(controlled[k], settings)) :
               probe.allItems[ItemsBefore(k - 1) + n] =
                 TokenItems(controlled[k], settings)[n]

\* two tokens of one actor are selected: its items appear twice
C17_Witness ==
  /\ probe.op = "aggregate"
  /\ controlled = <<"t5", "t1">>
  /\ probe.allItems = <<"a1", "a2", "a1", "a2">>


\* pass i is a selection-triggered pass that found no token selected, or no
\* usable item on the selected tokens
ClearingPass(i) ==
  /\ i \in DOMAIN passes
  /\ promises[i].kind = "sel"
  /\ passes[i].branch = "clear"

\* C18: a selection-triggered pass that finds no selected token, or no usable
\* item, deletes every flagged macro of the target page, creates no macro and
\* writes no slot.
C18_EmptySelectionClearsPage ==
  /\ [](\A i \in DOMAIN passes : ClearingPass(i) => passes[i].pc = "deleting")
  /\ [][\A i \in DOMAIN passes :
          (ClearingPass(i) /\ CleanupResolves(i))
          => /\ Returns(i)
             /\ \A id \in MarkedAtStart(i) : ~macros'[id].exists
             /\ \A id \in MacroIds : macros'[id].exists => macros[id].exists
             /\ hotbar' = hotbar]_vars

\* the selection has become empty and the pass for it has deleted the macros
\* an earlier pass had placed
C18_Witness ==
  /\ controlled = <<>>
  /\ Quiescent
  /\ history.prev.ok
  /\ history.prev.entities = <<>>
  /\ \E s \in PageSlots(settings.hotbarPage) :
       hotbar[s] # NoId /\ ~macros[hotbar[s]].exists


\* C19: when a pass that found the selection empty completes, currentFilter
\* is null and collectedItems is empty, whatever filter clicks fall within
\* the pass; and whenever nothing is pending with collectedItems empty,
\* currentFilter is null.
C19_EmptySelectionResetsFilter ==
  /\ [][\A i \in DOMAIN passes :
          (promises[i].kind = "sel" /\ passes[i].selectedTokens = <<>> /\ Returns(i))
          => (currentFilter' = NoFilter /\ collectedItems' = <<>>)]_vars
  /\ []((Quiescent /\ collectedItems = <<>>) => currentFilter = NoFilter)


\* C20: a request that has been enqueued is never taken off the chain
\* (scheduleUpdate clears only the pending timer), and with every host call
\* successful every request that timer firings and filter clicks have
\* enqueued has run to completion once nothing is pending.
C20_EveryEnqueuedPassCompletes ==
  /\ [][/\ Len(promises') >= Len(promises)
        /\ \A i \in PromiseIds :
             /\ promises'[i].kind = promises[i].kind
             /\ promises[i].called => promises'[i].called]_vars
  /\ []((Quiescent /\ failures = 0)
        => \A i \in PromiseIds : promises[i].state = "fulfilled")


\* C21: at most one timer is pending.  A notified selection change leaves
\* exactly the one timer it has set pending and starts no pass and enqueues
\* no request, also with a pass in flight; a timer that fires enqueues one
\* request and leaves no timer pending.
C21_AtMostOneTimerPending ==
  /\ [](Cardinality(timers) <= 1 /\ (timers # {} => timers = {updateTimeout}))
  /\ [][/\ controlled' # controlled
           => /\ promises' = promises
              /\ passes' = passes
              /\ ~(settings.onlyGMs /\ ~isGM)
                   => (updateTimeout' # NoTimer /\ timers' = {updateTimeout'})
        /\ (timers # {} /\ timers' = {} )
           => /\ Len(promises') = Len(promises) + 1
              /\ promises'[Len(promises')].state = "waiting"
              /\ promises'[Len(promises')].kind = "sel"
              /\ updateTimeout' = NoTimer
              /\ passes' = passes]_vars

\* a selection change has been notified while a timer was pending and a pass
\* was in flight
C21_Witness ==
  /\ passes # <<>>
  /\ timers # {}
  /\ history.bursts = 2
  /\ events = 3


\* the macros pass i has created so far
CreatedBy(i) ==
  {id \in MacroIds : macros[id].exists /\ macros[id].auto
                     /\ ~passes[i].planMacros[id].exists}

\* C22: a pass writes the hotbar once, after all its macros are created: the
\* only step of a pass that changes the hotbar is the one bulk write, which
\* puts every macro the pass has created into a slot, and before that step no
\* slot holds any of them.
C22_PlacementsVisibleInOneStep ==
  /\ [](\A i \in DOMAIN passes :
          passes[i].pc \in {"creating", "updating"}
          => \A id \in CreatedBy(i) : \A s \in Slots : hotbar[s] # id)
  /\ [][(hotbar' # hotbar /\ events' = events)
        => \E i \in DOMAIN passes :
             /\ passes[i].pc = "updating"
             /\ Returns(i)
             /\ macros' = macros
             /\ hotbar' = passes[i].update
             /\ \A id \in CreatedBy(i) : \E s \in Slots : hotbar'[s] = id]_vars

\* a pass has created two macros and has not yet written a slot
C22_Witness ==
  \E i \in DOMAIN passes :
    /\ passes[i].pc = "updating"
    /\ Cardinality(CreatedBy(i)) = 2
    /\ hotbar = passes[i].cloned


\* C23: when the host rejects a call of a pass, the pass ends there: it is
\* rejected, issues no further call (it is no longer in flight and its promise
\* stays rejected), and nothing it has applied is undone (the step leaves the
\* macros and the hotbar as they are).
C23_NoRetryNoRollback ==
  /\ [][failures' # failures
        => /\ \E i \in DOMAIN passes :
                i \notin DOMAIN passes' /\ promises'[i].state = "rejected"
           /\ macros' = macros
           /\ hotbar' = hotbar]_vars
  /\ [][\A i \in PromiseIds :
          promises[i].state = "rejected"
          => (promises'[i].state = "rejected" /\ i \notin DOMAIN passes')]_vars

\* the host has rejected Macro.create or game.user.update of a pass whose
\* cleanup had deleted the macros of an earlier pass: they stay deleted
C23_Witness ==
  /\ failures = 1
  /\ passes = <<>>
  /\ ~history.prev.ok
  /\ Len(history.prev.entities) > 0
  /\ \E s \in Slots : hotbar[s] # NoId /\ ~macros[hotbar[s]].exists


\* the user is not a GM and the setting onlyGMs is on
Gated == settings.onlyGMs /\ ~isGM

\* C24: while onlyGMs is on and the user is no GM, a selection change sets no
\* timer and enqueues no request, so that no macro is created or deleted and
\* no slot is written for it.
C24_OnlyGMsGating ==
  [][(Gated /\ controlled' # controlled)
     => /\ timers' = timers
        /\ updateTimeout' = updateTimeout
        /\ promises' = promises
        /\ passes' = passes
        /\ macros' = macros
        /\ hotbar' = hotbar]_vars

\* a token has been controlled by a user who is no GM with onlyGMs on, and
\* nothing is pending
C24_Witness ==
  /\ Gated
  /\ controlled # <<>>
  /\ timers = {}
  /\ promises = <<>>


\* a pass enqueued by a filter click
FilterPass(i) == i \in DOMAIN promises /\ promises[i].kind = "filter"
\* the step enqueues a filter pass
FilterEnqueued ==
  /\ Len(promises') > Len(promises)
  /\ promises'[Len(promises')].kind = "filter"
\* the promise chain calls the callback of filter pass i
FilterPassStarts(i) ==
  /\ FilterPass(i)
  /\ promises[i].state = "waiting"
  /\ promises'[i].state = "running"
\* the cleanup of filter pass i resolves and the pass goes on to Macro.create
FilterPassPlaces(i) ==
  /\ FilterPass(i)
  /\ i \in DOMAIN passes
  /\ passes[i].pc = "deleting"
  /\ i \in DOMAIN passes'
  /\ passes'[i].pc = "creating"

\* C25: a filter click sets the active filter to one of the shown buttons and
\* enqueues exactly one pass, chained on the tail of the work queue that the
\* selection passes use, without touching the cache, a pass or the host; the
\* filter pass, when called, keeps no selection and leaves the cache and the
\* active filter alone; and when its cleanup resolves, what it goes on to
\* create is the leading part, as long as the free slots, of the cached items
\* that match the filter active at that moment (the whole cache when "all").
C25_FilterPassPlacesCachedMatches ==
  [][/\ FilterEnqueued =>
          /\ Len(promises') = Len(promises) + 1
          /\ promises'[Len(promises')].pred = workQueue
          /\ workQueue' = Len(promises')
          /\ currentFilter' \in filterButtons
          /\ collectedItems' = collectedItems
          /\ passes' = passes
          /\ macros' = macros
          /\ hotbar' = hotbar
     /\ \A i \in DOMAIN promises :
          /\ FilterPassStarts(i) =>
               /\ collectedItems' = collectedItems
               /\ currentFilter' = currentFilter
               /\ passes'[i].branch = "filter"
               /\ passes'[i].selectedTokens = <<>>
          /\ FilterPassPlaces(i) =>
               /\ collectedItems' = collectedItems
               /\ passes'[i].entities =
                    filterItemsByType(collectedItems, currentFilter)
               /\ passes'[i].macroData =
                    Slice(passes'[i].entities, Len(passes'[i].freeSlots))
               /\ (currentFilter = NoFilter
                     => passes'[i].entities = collectedItems)]_vars

\* a filter pass under a filter that leaves out a cached item is creating
C25_Witness ==
  \E i \in DOMAIN passes :
    /\ FilterPass(i)
    /\ passes[i].pc = "creating"
    /\ currentFilter # NoFilter
    /\ Len(passes[i].entities) < Len(collectedItems)
    /\ passes[i].entities = filterItemsByType(collectedItems, currentFilter)


\* whether a cached entry belongs to the category of button f
InCategory(e, f) ==
  IF f = NoFilter THEN TRUE
  ELSE IF e = Undefined THEN FALSE
  ELSE IF f = "spell" THEN ItemType(e) = "spell"
  ELSE IF Len(ItemActivities(e)) = 0 THEN FALSE
  ELSE ItemActivities(e)[1] = f
\* the number of cached entries in the category of button f
CategoryCount(f) ==
  Cardinality({k \in DOMAIN collectedItems : InCategory(collectedItems[k], f)})

\* C26: the filter controls built over a cache are none when the cache is
\* empty; otherwise there is one button for each of all, action, bonus,
\* reaction and spell, its count is the number of cached items of its category
\* (the cache length for "all", items of type spell for "spell", items whose
\* first activity has the category for the others), it is disabled if and only
\* if that count is zero, and it is active if and only if it is the active
\* filter.
C26_FilterControls ==
  probe.op = "filters" =>
    IF collectedItems = <<>> THEN probe.html = NoControls
    ELSE /\ DOMAIN probe.html = {NoFilter, "action", "bonus", "reaction", "spell"}
         /\ \A f \in DOMAIN probe.html :
              /\ probe.html[f].count = CategoryCount(f)
              /\ probe.html[f].isDisabled <=> (CategoryCount(f) = 0)
              /\ probe.html[f].isActive <=> (f = currentFilter)
         /\ probe.html[NoFilter].count = Len(collectedItems)

\* controls over a cache of several items, c4 among them, whose bonus activity
\* is not its first: the bonus button counts the one other bonus item, the
\* action button is active and the reaction button disabled
C26_Witness ==
  /\ probe.op = "filters"
  /\ "c4" \in SeqToSet(collectedItems)
  /\ probe.html[NoFilter].count >= 3
  /\ probe.html["bonus"].count = 1
  /\ probe.html["action"].isActive
  /\ ~probe.html["action"].isDisabled
  /\ probe.html["reaction"].isDisabled


\* C27: the page whose free slots a pass computes and writes to after its
\* cleanup is the page whose flagged macros the cleanup collected, also when
\* the hotbarPage setting is changed while the pass awaits a host call.
C27_CleanupAndPlacementOnSamePage ==
  \A i \in DOMAIN passes :
    passes[i].pc \in {"creating", "updating"}
    => /\ passes[i].hotbarPage = passes[i].startPage
       /\ \A n \in DOMAIN passes[i].freeSlots :
            passes[i].freeSlots[n] \in PageSlots(passes[i].startPage)


\* C28: whenever no pass is in flight, every existing macro that carries the
\* autoMacro flag is in a slot of the current target page, where the cleanup
\* of the next pass finds it.
C28_NoOrphanedAutoMacros ==
  passes = <<>>
  => \A id \in MacroIds :
       (macros[id].exists /\ macros[id].auto)
       => \E s \in PageSlots(settings.hotbarPage) : hotbar[s] = id


\* C29: when a pass completes, every slot that is not empty refers to a macro
\* that exists; the slots of the flagged macros the cleanup deleted are empty
\* also when the pass places fewer macros than it deleted, or none.
C29_NoDanglingSlotAfterPass ==
  [][\A i \in DOMAIN passes :
       Returns(i)
       => \A s \in Slots : hotbar'[s] # NoId => macros'[hotbar'[s]].exists]_vars


\* the promise chain calls the callback of selection pass i
SelPassStarts(i) ==
  /\ promises[i].kind = "sel"
  /\ promises[i].state = "waiting"
  /\ promises'[i].state = "running"
\* the cleanup of selection pass i resolves and the pass goes on to Macro.create
SelPassPlaces(i) ==
  /\ promises[i].kind = "sel"
  /\ i \in DOMAIN passes
  /\ passes[i].pc = "deleting"
  /\ i \in DOMAIN passes'
  /\ passes'[i].pc = "creating"

\* C30: with experimentalFilters on, a selection pass whose aggregate is not
\* empty stores the aggregate and leaves the active filter as it was, and what
\* it goes on to create are cached items of that aggregate matching the active
\* filter; with experimentalFilters off, every selection pass sets the active
\* filter to null, and what it goes on to create is taken from the whole
\* aggregate, whatever a click has made of the filter meanwhile.  The cache is
\* not changed while a pass is in flight.
C30_FilterPersistsAcrossSelections ==
  [][/\ \A i \in DOMAIN promises :
          LET allItems == CollectItems(controlled, settings)
          IN  SelPassStarts(i) =>
                IF settings.experimentalFilters
                THEN Len(allItems) > 0
                     => /\ currentFilter' = currentFilter
                        /\ collectedItems' = allItems
                        /\ passes'[i].branch = "filter"
                ELSE /\ currentFilter' = NoFilter
                     /\ passes'[i].items = (IF Len(controlled) = 0 THEN <<>> ELSE allItems)
     /\ \A i \in DOMAIN passes :
          /\ (i \in DOMAIN passes' /\ promises[i].kind = "sel")
               => collectedItems' = collectedItems
          /\ SelPassPlaces(i) =>
               IF passes[i].branch = "filter"
               THEN /\ passes'[i].entities =
                         filterItemsByType(collectedItems, currentFilter)
                    /\ passes'[i].macroData =
                         Slice(passes'[i].entities, Len(passes'[i].freeSlots))
               ELSE /\ passes'[i].entities = passes[i].items
                    /\ passes'[i].macroData =
                         Slice(passes[i].items, Len(passes'[i].freeSlots))]_vars

\* a selection pass enqueued after the last filter click, with the filter that
\* click chose still active, is creating macros for some but not all of the
\* items it collected
C30_Witness ==
  \E i \in DOMAIN passes :
    /\ promises[i].kind = "sel"
    /\ i = Len(promises)
    /\ \E j \in 1..(i - 1) : promises[j].kind = "filter"
    /\ passes[i].branch = "filter"
    /\ passes[i].pc = "creating"
    /\ currentFilter # NoFilter
    /\ Len(passes[i].macroData) > 0
    /\ Len(passes[i].entities) < Len(collectedItems)


\* C31: once no timer is pending and no pass is queued or in flight, with
\* every host call successful, the flagged entries of the target page are the
\* placement of the cached items under the active filter: the items of
\* collectedItems that match currentFilter, in the lowest slots the user's
\* macros leave free, and no other flagged entry on that page; whatever filter
\* clicks fell between or within the passes.  (With no setting or slot changed
\* by hand after the last selection change.)
C31_QuiescentPlacementIsOfFilteredCache ==
  (/\ Quiescent
   /\ failures = 0
   /\ ~history.stale)
  => LET E == filterItemsByType(collectedItems, currentFilter)
         F == SlotsLeftByUser
         k == IF Len(E) < Len(F) THEN Len(E) ELSE Len(F)
     IN  /\ \A n \in 1..k : AutoPlaced(F[n]) /\ macros[hotbar[F[n]]].item = E[n]
         /\ \A s \in PageSlots(settings.hotbarPage) \ {F[n] : n \in 1..k} :
              ~AutoPlaced(s)


\* C32: for every item list and every filter among null, action, bonus,
\* reaction and spell, FilterApplication._filterItems and filterItemsByType
\* return the same sub-list in the same order; an item with no activities, or
\* whose first activity has no activation type, is in neither list under
\* action, bonus or reaction.
C32_FilterItemsAgree ==
  probe.op = "filterItems" =>
    /\ probe.app = probe.main
    /\ probe.filter \in {"action", "bonus", "reaction"}
         => \A n \in DOMAIN probe.app :
              /\ probe.app[n] # Undefined
              /\ Len(ItemActivities(probe.app[n])) > 0
              /\ ItemActivities(probe.app[n])[1] = probe.filter

\* both filters applied under "bonus" to a list that holds c4, whose first
\* activity has no activation type and whose second is a bonus action: both
\* leave it out and keep another item
C32_Witness ==
  /\ probe.op = "filterItems"
  /\ probe.filter = "bonus"
  /\ "c4" \in SeqToSet(collectedItems)
  /\ Len(probe.app) > 0
  /\ "c4" \notin SeqToSet(probe.app)
  /\ probe.app = probe.main
====
